---- MODULE Spec2Model ----
(***************************************************************************)
(* Model of the live-transcription recorder (App component, src/types.ts   *)
(* lines 34-667): text normalizer, segmenter, enrichment queue and         *)
(* connection manager.                                                     *)
(*                                                                         *)
(* Text is a sequence of characters, each character a one-element TLA+     *)
(* string.  React state (useState) and refs (useRef) are variables; a      *)
(* callback that outlives the render that created it carries the values    *)
(* it closed over (cap / env fields of connections, timers and calls).     *)
(***************************************************************************)
EXTENDS Integers, Sequences, FiniteSets, Bags, TLC

\* ------------------------------------------------------------------ text

\* Characters String.prototype.trim removes (those the inputs use).
WhiteSpace == {" ", "\n", "\t", "\r"}

\* Line terminators: the characters the regex atom "." does not match.
LineTerminators == {"\n", "\r"}

IsDot(c) == c \notin LineTerminators

\* Number of characters from position i on that equal s[i].
RunLen(s, i) ==
  CHOOSE n \in 1..(Len(s) - i + 1) :
    /\ \A k \in 0..(n - 1) : s[i + k] = s[i]
    /\ (i + n > Len(s) \/ s[i + n] # s[i])

\* /(.)\1{6,}/ : one character followed by at least MinCharRepeats copies.
MinCharRepeats == 6

\* Variant of CharRunMatches with the quantifier {5,}: six characters match.
CharRunMatchesSix(s, i) == IsDot(s[i]) /\ RunLen(s, i) >= MinCharRepeats

CharRunMatches(s, i) == IsDot(s[i]) /\ RunLen(s, i) >= 1 + MinCharRepeats

\* text.replace(/(.)\1{6,}/g, '$1'): scan left to right, a match takes the
\* whole run (the quantifier is greedy) and leaves its first character.
\* NextRun is the first position from i on where the regex matches (0: none);
\* the characters before it are copied.
NextRun(s, i) ==
  LET M == { j \in i..Len(s) : CharRunMatches(s, j) }
  IN IF M = {} THEN 0 ELSE CHOOSE j \in M : \A k \in M : j <= k

RECURSIVE CollapseRuns(_, _, _)
CollapseRuns(s, i, acc) ==
  IF i > Len(s) THEN acc
  ELSE LET j == NextRun(s, i) IN
       IF j = 0 THEN acc \o SubSeq(s, i, Len(s))
       ELSE CollapseRuns(s, j + RunLen(s, j), acc \o SubSeq(s, i, j))

\* /(.{4,})\1{2,}/ : a unit of at least MinUnitLen characters followed by at
\* least MinUnitRepeats copies of itself.
MinUnitLen == 4
MinUnitRepeats == 2

\* k further copies of the unit s[i..i+L-1] follow it.
Repeats(s, i, L, k) ==
  /\ i + (k + 1) * L - 1 <= Len(s)
  /\ \A j \in 0..(k * L - 1) : s[i + L + j] = s[i + (j % L)]

\* Unit lengths for which the regex matches at position i.
UnitLens(s, i) ==
  { L \in MinUnitLen..((Len(s) - i + 1) \div (1 + MinUnitRepeats)) :
      /\ Repeats(s, i, L, MinUnitRepeats)
      /\ \A j \in 0..(L - 1) : IsDot(s[i + j]) }

\* The group is greedy: the longest unit that matches is the one taken.
UnitLen(s, i) == CHOOSE L \in UnitLens(s, i) : \A M \in UnitLens(s, i) : M <= L

\* The repetition is greedy too: as many copies as follow.
UnitCopies(s, i, L) ==
  CHOOSE k \in MinUnitRepeats..(Len(s) \div L) :
    Repeats(s, i, L, k) /\ ~Repeats(s, i, L, k + 1)

\* cleaned.replace(/(.{4,})\1{2,}/g, '$1'): a single left-to-right pass; the
\* scan resumes after the match, so the replacement is not scanned again.
\* NextUnit is the first position from i on where the regex matches (0:
\* none); the characters before it are copied.
NextUnit(s, i) ==
  LET M == { j \in i..Len(s) : UnitLens(s, j) # {} }
  IN IF M = {} THEN 0 ELSE CHOOSE j \in M : \A k \in M : j <= k

RECURSIVE CollapsePhrases(_, _, _)
CollapsePhrases(s, i, acc) ==
  IF i > Len(s) THEN acc
  ELSE LET j == NextUnit(s, i) IN
       IF j = 0 THEN acc \o SubSeq(s, i, Len(s))
       ELSE LET L == UnitLen(s, j)
                k == UnitCopies(s, j, L)
            IN CollapsePhrases(s, j + (k + 1) * L, acc \o SubSeq(s, i, j + L - 1))

\* String.prototype.trim
RECURSIVE TrimLeft(_)
TrimLeft(s) ==
  IF s # <<>> /\ Head(s) \in WhiteSpace THEN TrimLeft(Tail(s)) ELSE s

RECURSIVE TrimRight(_)
TrimRight(s) ==
  IF s # <<>> /\ s[Len(s)] \in WhiteSpace
  THEN TrimRight(SubSeq(s, 1, Len(s) - 1)) ELSE s

Trim(s) == TrimLeft(TrimRight(s))

cleanText(text) ==
  IF text = <<>> THEN <<>>
  ELSE Trim(CollapsePhrases(CollapseRuns(text, 1, <<>>), 1, <<>>))

\* ------------------------------------------------------------- constants

IDLE == "IDLE"
RECORDING == "RECORDING"
PAUSED == "PAUSED"
ERROR == "ERROR"
RecorderStatus == {IDLE, RECORDING, PAUSED, ERROR}

\* translatedText is optional: the value of a segment that has none.
NoText == <<"undefined">>

\* viewingSessionId === null, sessionRef.current === null
Null == 0

\* onmessage: liveText.length > 120 || (liveText.length > 25 && mark at end)
HighWater == 120
LowWater == 25
SentenceEnd == {"u3002", "uFF01", "uFF1F", ".", "!", "?", "\n"}

\* processQueue: item.retryCount < 5, Math.pow(2, retryCount) * 2000,
\* setTimeout(processQueue, 1000)
MaxJobRetries == 5
RetryBaseMs == 2000
DrainDelayMs == 1000

\* onerror: connectionRetryCount.current < 5, Math.min(15000, 2^n * 1000);
\* startRecording: setTimeout(connectToLive, 300)
MaxConnRetries == 5
BackoffCapMs == 15000
BackoffBaseMs == 1000
ConnectDelayMs == 300

\* ---------------------------------------------------------------- bounds

\* Spec: segments created, sessions archived, sessions opened, failed
\* calls, longest raw buffer that still takes a delta.
MaxSegs == 1
MaxSessions == 1
MaxConns == 1
MaxFails == 1
MaxBuf == 0
\* Saturation of the count of consecutive transport errors.
MaxStreak == 7
\* SpecRetry: failed calls.
RetryFails == 6
\* SpecConn: pending reconnect timers, sessions opened.
ConnTimers == 5
ConnConns == 2
\* SpecSeg: segments, largest elapsedTime, longest raw buffer that still
\* takes a delta.
SegSegs == 2
SegTime == 1
SegBuf == 1
\* SpecE2E: raw buffer length up to which a delta is accepted, segments.
E2EBuf == 9
E2ESegs == 1
\* SpecFifo: segments, failing calls.
FifoSegs == 2
FifoFails == 1
\* SpecLen: buffer length up to which deltas arrive, and segments created.
LenBuf == 120
LenSegs == 1
\* SpecMark: buffer length up to which deltas arrive, and segments created.
MarkBuf == 3
MarkSegs == 1
\* SpecStop: buffer length up to which deltas arrive, segments and sessions.
StopBuf == 1
StopSegs == 1
StopConns == 2
ErrConns == 2
ErrTimers == 2
ErrSessions == 2
\* SpecAudio: sessions created, and the length of the frame history.
AudioConns == 2
FrameLog == 2
\* SpecRuns, SpecPhrases: longest normalizer input.
MaxRunText == 9
MaxPhraseText == 30
\* SpecClean: longest normalizer input.
MaxCleanLen == 23

\* ----------------------------------------------------------------- state

VARIABLES
  status,                  \* useState<RecorderStatus>; statusRef mirrors it
  segments,                \* useState<TranscriptionSegment[]>
  segmentsRef,             \* useRef<TranscriptionSegment[]>
  elapsedTime,             \* useState(0)
  sessions,                \* useState<RecordingSession[]>, newest first
  viewingSessionId,        \* useState<string | null>
  isBilingual,             \* useState(false)
  transcriptionBufferRef,  \* useRef<string>
  lastSegmentTimeRef,      \* useRef<number>
  connectionRetryCount,    \* useRef(0)
  isProcessingRef,         \* useRef(false)
  processingQueueRef,      \* useRef<{id, type, retryCount}[]>
  sessionRef,              \* useRef<any>: id of the session held, or Null
  conns,                   \* streaming sessions created by ai.live.connect
  micPending,              \* startRecording suspended in getUserMedia
  connectTimers,           \* pending setTimeout(connectToLive, ms)
  retryTimers,             \* pending setTimeout(() => queue.push(..), ms)
  drainTimers,             \* pending setTimeout(processQueue, 1000)
  calls,                   \* processQueue activations past the busy flag
  nextSegId, nextConnId, nextSessId,  \* fresh ids (Math.random strings)
  attempts,                \* history: per job, the outcome of each dispatch
  origText,                \* history: per segment id, its text at finalize
  streak,                  \* history: consecutive onerror events, -1 if broken
  audioStream,             \* useState<MediaStream | null>
  orphanTracks,            \* a stream no longer in audioStream has live tracks
  scriptProcessorRef,      \* useRef: id of the session whose processor it holds
  audioContextRef,         \* useRef: id of the session whose context it holds
  frames,                  \* history: the last two onaudioprocess events
  lim,                     \* the bounds of the run, never changed
  input, output            \* normalizer under test: a string and its clean

reactVars == <<status, segments, elapsedTime, sessions, viewingSessionId, isBilingual>>
segVars == <<segmentsRef, transcriptionBufferRef, lastSegmentTimeRef, nextSegId, origText>>
queueVars == <<isProcessingRef, processingQueueRef, retryTimers, drainTimers, calls, attempts>>
connVars == <<connectionRetryCount, sessionRef, conns, micPending, connectTimers, nextConnId, streak>>
testVars == <<lim, input, output>>
audioVars == <<audioStream, orphanTracks, scriptProcessorRef, audioContextRef, frames>>
vars == <<reactVars, segVars, queueVars, connVars, nextSessId, testVars, audioVars>>

\* --------------------------------------------------------------- helpers

Pow2(n) == 2 ^ n

Min(a, b) == IF a < b THEN a ELSE b

Last(s) == s[Len(s)]

Ids(list) == { list[i].id : i \in 1..Len(list) }

\* list.find(s => s.id === id), for an id that is in the list
Find(list, id) ==
  list[CHOOSE i \in 1..Len(list) :
         list[i].id = id /\ \A j \in 1..(i - 1) : list[j].id # id]

\* prev.map(s => s.id === id ? { ...s, text: t } : s)
MapText(list, id, t) ==
  [i \in 1..Len(list) |->
     IF list[i].id = id THEN [list[i] EXCEPT !.text = t] ELSE list[i]]

\* Variant of MapTranslated that writes the translation over the text too.
MapTranslatedOverText(list, id, t) ==
  [i \in 1..Len(list) |->
     IF list[i].id = id THEN [list[i] EXCEPT !.translatedText = t, !.text = t]
     ELSE list[i]]

\* prev.map(s => s.id === id ? { ...s, translatedText: t } : s)
MapTranslated(list, id, t) ==
  [i \in 1..Len(list) |->
     IF list[i].id = id THEN [list[i] EXCEPT !.translatedText = t] ELSE list[i]]

Job(id, type, rc) == [id |-> id, type |-> type, retryCount |-> rc]

JobKey(item) == <<item.id, item.type>>

\* The values a render's callbacks close over.
Env(segs, sess, view, bil) ==
  [segments |-> segs, sessions |-> sess, view |-> view, bil |-> bil]

\* ------------------------------------------------------------- segmenter

\* Variant of ShouldFinalize with the thresholds 50 and 8.
ShouldFinalizeEager(liveText) ==
  \/ Len(liveText) > 50
  \/ Len(liveText) > 8 /\ Last(liveText) \in SentenceEnd

\* Variant of ShouldFinalize without the length trigger.
ShouldFinalizeOnMark(liveText) ==
  Len(liveText) > LowWater /\ Last(liveText) \in SentenceEnd

\* onmessage: the condition under which a delta finalizes the buffer
ShouldFinalize(liveText) ==
  \/ Len(liveText) > HighWater
  \/ Len(liveText) > LowWater /\ Last(liveText) \in SentenceEnd

\* finalizeCurrentSegment: if (!text || text.length < 2) return
MinSegmentLen == 2

\* Variant of TooShort that discards only the empty text.
TooShortEmptyOnly(text) == Len(text) < 1

TooShort(text) == Len(text) < MinSegmentLen

\* startTime and endTime of a new segment; the boundary kept for the next
SegmentStart(last, elapsed) == last

SegmentEnd(last, elapsed) == elapsed

\* Variant of NextBoundary that never advances the boundary.
NextBoundaryStuck(last, elapsed) == last

NextBoundary(last, elapsed) == elapsed

\* Variant of NewJobs that pushes the translate job first.
NewJobsTranslateFirst(id, bil) ==
  (IF bil THEN <<Job(id, "translate", 0)>> ELSE <<>>) \o <<Job(id, "polish", 0)>>

\* Variant of NewJobs that pushes the polish job twice.
NewJobsTwice(id, bil) ==
  <<Job(id, "polish", 0), Job(id, "polish", 0)>>
    \o (IF bil THEN <<Job(id, "translate", 0)>> ELSE <<>>)

\* The jobs finalizeCurrentSegment pushes for a new segment.
NewJobs(id, bil) ==
  <<Job(id, "polish", 0)>> \o (IF bil THEN <<Job(id, "translate", 0)>> ELSE <<>>)

\* finalizeCurrentSegment, on the refs it reads (buffer, list, boundary,
\* queue) with the elapsedTime and isBilingual of the render that defined it.
\* "created" tells whether setSegments was called.
finalizeCurrentSegment(buf, ref, last, q, nid, elapsed, bil) ==
  LET text == CHOOSE t \in {cleanText(buf)} : TRUE IN
  IF TooShort(text)
  THEN [created |-> FALSE, buf |-> buf, ref |-> ref, last |-> last,
        q |-> q, nid |-> nid]
  ELSE LET newSegment == [id |-> nid,
                          startTime |-> SegmentStart(last, elapsed),
                          endTime |-> SegmentEnd(last, elapsed),
                          text |-> text,
                          translatedText |-> NoText,
                          isFinal |-> TRUE]
       IN [created |-> TRUE, buf |-> <<>>, ref |-> Append(ref, newSegment),
           last |-> NextBoundary(last, elapsed),
           q |-> q \o NewJobs(nid, bil), nid |-> nid + 1]

\* The state of the segmenter's refs, as finalizeCurrentSegment takes it.
FinalizeNow(buf, elapsed, bil) ==
  finalizeCurrentSegment(buf, segmentsRef, lastSegmentTimeRef,
                         processingQueueRef, nextSegId, elapsed, bil)

\* History kept when a finalize returns f: the new segment's jobs and text.
NoteCreated(f) ==
  IF f.created
  THEN /\ attempts' = [k \in DOMAIN attempts \cup
                              { JobKey(f.q[i]) : i \in (Len(processingQueueRef) + 1)..Len(f.q) }
                         |-> IF k \in DOMAIN attempts THEN attempts[k] ELSE <<>>]
       /\ origText' = [i \in DOMAIN origText \cup {nextSegId}
                         |-> IF i \in DOMAIN origText THEN origText[i]
                             ELSE Last(f.ref).text]
  ELSE UNCHANGED <<attempts, origText>>

\* ------------------------------------------------------- enrichment queue

\* Variant of CanDrain that leaves out the busy flag.
CanDrainIgnoringBusy(busy, q) == q # <<>>

\* processQueue: if (isProcessingRef.current || queue.length === 0) return
CanDrain(busy, q) == ~busy /\ q # <<>>

\* viewingSessionId ? sessions.find(s => s.id === viewingSessionId)?.segments
\*                  : segments          (undefined is modelled as no segment)
ActiveSegments(env) ==
  IF env.view # Null
  THEN IF env.view \in Ids(env.sessions)
       THEN Find(env.sessions, env.view).segments ELSE <<>>
  ELSE env.segments

\* An item makes an external call unless it is a translate with bilingual off.
CallsOut(item, env) ==
  item.type = "polish" \/ (item.type = "translate" /\ env.bil)

\* currentActiveSegments.indexOf(segment), counted from 0; -1 if absent
IndexOf(list, id) ==
  IF id \notin Ids(list) THEN -1
  ELSE (CHOOSE i \in 1..Len(list) :
          list[i].id = id /\ \A j \in 1..(i - 1) : list[j].id # id) - 1

\* list.slice(from, to), both counted from 0
Slice(list, from, to) == SubSeq(list, from + 1, to)

ContextSize == 3

\* segmentIndex > 0 ? list.slice(Math.max(0, segmentIndex - 3), segmentIndex) : []
contextSegments(list, id) ==
  LET segmentIndex == IndexOf(list, id) IN
  IF segmentIndex > 0
  THEN Slice(list, IF segmentIndex - ContextSize > 0 THEN segmentIndex - ContextSize ELSE 0,
             segmentIndex)
  ELSE <<>>

\* The context polishSegment is called with by the call c.
ContextOf(c) == contextSegments(ActiveSegments(c.env), c.item.id)

\* The synchronous head of processQueue (up to the first await) run by the
\* closure with values env: items whose segment is not found are dropped by
\* the recursive call; the first one found sets the busy flag and is started.
RECURSIVE Drain(_, _, _)
Drain(q, busy, env) ==
  IF ~CanDrain(busy, q) THEN [q |-> q, started |-> {}]
  ELSE LET item == Head(q) IN
       IF item.id \notin Ids(ActiveSegments(env))
       THEN Drain(Tail(q), busy, env)
       ELSE [q |-> Tail(q),
             started |-> {[item |-> item, env |-> env,
                           phase |-> IF CallsOut(item, env) THEN "call"
                                     ELSE "cooldown"]}]

\* The effect [isBilingual, segments, viewingSessionId, sessions] re-runs
\* after a render that changed one of them: a new processQueue closure over
\* the new values is created and called, on the queue, flag and calls the
\* handler left.
RunEffect(q, busy, cs, env) ==
  LET d == Drain(q, busy, env) IN
  /\ processingQueueRef' = d.q
  /\ calls' = cs \cup d.started
  /\ isProcessingRef' = (busy \/ d.started # {})

\* Variant of ShouldRetry that is off by one.
ShouldRetryInclusive(rc) == rc <= MaxJobRetries

\* else if (item.retryCount < 5)
ShouldRetry(rc) == rc < MaxJobRetries

\* Variant of RetryDelay that grows linearly.
RetryDelayLinear(rc) == (rc + 1) * RetryBaseMs

\* Math.pow(2, item.retryCount) * 2000
RetryDelay(rc) == Pow2(rc) * RetryBaseMs

\* Variant of Finally that leaves the busy flag as it is.
FinallyStaysBusy(c) ==
  /\ isProcessingRef' = isProcessingRef
  /\ drainTimers' = drainTimers (+) SetToBag({[env |-> c.env, delay |-> DrainDelayMs]})

\* finally { isProcessingRef.current = false; setTimeout(processQueue, 1000) }
Finally(c) ==
  /\ isProcessingRef' = FALSE
  /\ drainTimers' = drainTimers (+) SetToBag({[env |-> c.env, delay |-> DrainDelayMs]})

\* History: the number of external calls that have failed so far.
Failures(log) == Cardinality({ i \in 1..Len(log) : ~log[i].ok })

RECURSIVE FailedIn(_)
FailedIn(keys) ==
  IF keys = {} THEN 0
  ELSE LET k == CHOOSE k \in keys : TRUE
       IN Failures(attempts[k]) + FailedIn(keys \ {k})

FailedCalls == FailedIn(DOMAIN attempts)

LogAttempt(c, ok, delay) ==
  attempts' = [attempts EXCEPT ![JobKey(c.item)] =
                 Append(@, [rc |-> c.item.retryCount, ok |-> ok, delay |-> delay])]

\* response.text?.trim() || segment.text, with segment the one processQueue
\* found in its closure's list
Polished(c, response) ==
  IF Trim(response) # <<>> THEN Trim(response)
  ELSE Find(ActiveSegments(c.env), c.item.id).text

\* response.text?.trim() || ""
Translated(response) == Trim(response)

\* polishSegment / translateSegment resolve with a response: the field is
\* replaced by id in the live list and, if the closure views a session, in
\* that session; then processQueue awaits the cooldown.
ApplyResult(list, c, response) ==
  IF c.item.type = "polish"
  THEN MapText(list, c.item.id, Polished(c, response))
  ELSE MapTranslated(list, c.item.id, Translated(response))

\* setSessions(prev => prev.map(session => session.id === viewingSessionId
\*   ? {...session, segments: updateFn(session.segments)} : session))
MapSession(list, sid, c, response) ==
  [i \in 1..Len(list) |->
     IF list[i].id = sid
     THEN [list[i] EXCEPT !.segments = ApplyResult(@, c, response)]
     ELSE list[i]]

\* if (success) await new Promise(resolve => setTimeout(resolve,
\* baseCooldownRef.current)): the flag set at line 130 is not touched before
\* the finally block.
\* Variant of BusyWhileCooling that ends the activation at the success.
BusyUntilSuccess(busy) == FALSE

BusyWhileCooling(busy) == busy

CallSucceeds(c, response) ==
  /\ c \in calls /\ c.phase = "call"
  /\ LET apply(list) == ApplyResult(list, c, response)
         segs == apply(segments)
         sess == IF c.env.view # Null THEN MapSession(sessions, c.env.view, c, response)
                 ELSE sessions
         cs == (calls \ {c}) \cup {[c EXCEPT !.phase = "cooldown"]}
     IN /\ segments' = segs
        /\ sessions' = sess
        /\ RunEffect(processingQueueRef, BusyWhileCooling(isProcessingRef), cs,
                     Env(segs, sess, viewingSessionId, isBilingual))
  /\ LogAttempt(c, TRUE, 0)
  /\ UNCHANGED <<status, elapsedTime, viewingSessionId, isBilingual, segVars,
                 retryTimers, drainTimers, connVars, nextSessId, testVars, audioVars>>

\* The call throws inside polishSegment / translateSegment, which returns
\* false: a retry is scheduled if retries remain, then the finally block.
CallFails(c) ==
  /\ c \in calls /\ c.phase = "call"
  /\ FailedCalls < lim.fails
  /\ calls' = calls \ {c}
  /\ IF ShouldRetry(c.item.retryCount)
     THEN /\ retryTimers' = retryTimers (+)
               SetToBag({[item |-> c.item, delay |-> RetryDelay(c.item.retryCount)]})
          /\ LogAttempt(c, FALSE, RetryDelay(c.item.retryCount))
     ELSE /\ UNCHANGED retryTimers
          /\ LogAttempt(c, FALSE, 0)
  /\ Finally(c)
  /\ UNCHANGED <<reactVars, segVars, processingQueueRef, connVars, nextSessId, testVars, audioVars>>

\* await new Promise(resolve => setTimeout(resolve, baseCooldownRef.current))
\* resolves: the finally block.
CooldownDone(c) ==
  /\ c \in calls /\ c.phase = "cooldown"
  /\ calls' = calls \ {c}
  /\ Finally(c)
  /\ UNCHANGED <<reactVars, segVars, processingQueueRef, retryTimers, attempts,
                 connVars, nextSessId, testVars, audioVars>>

\* setTimeout(() => queue.push({ ...item, retryCount: item.retryCount + 1 }))
RetryFires(t) ==
  /\ BagIn(t, retryTimers)
  /\ retryTimers' = retryTimers (-) SetToBag({t})
  /\ processingQueueRef' =
       Append(processingQueueRef, [t.item EXCEPT !.retryCount = @ + 1])
  /\ UNCHANGED <<reactVars, segVars, isProcessingRef, drainTimers, calls, attempts,
                 connVars, nextSessId, testVars, audioVars>>

\* setTimeout(processQueue, 1000) fires: the same closure runs again.
DrainFires(t) ==
  /\ BagIn(t, drainTimers)
  /\ drainTimers' = drainTimers (-) SetToBag({t})
  /\ RunEffect(processingQueueRef, isProcessingRef, calls, t.env)
  /\ UNCHANGED <<reactVars, segVars, retryTimers, attempts, connVars, nextSessId,
                 testVars, audioVars>>

\* ----------------------------------------------------- connection manager

\* cleanupSession: the session held in sessionRef is closed and forgotten.
\* A session still connecting is not in sessionRef and is left alone.  The
\* processor held in scriptProcessorRef is disconnected and the context held
\* in audioContextRef is closed: neither fires onaudioprocess again.
ConnsAfterCleanup ==
  { [c EXCEPT !.audio = @ /\ c.id \notin {scriptProcessorRef, audioContextRef}] :
      c \in { d \in conns : d.id # sessionRef } }

\* onerror: connectionRetryCount.current < 5 && statusRef.current !== IDLE
CanReconnect(cnt, st) == cnt < MaxConnRetries /\ st # IDLE

\* onerror: else if (connectionRetryCount.current >= 5)
\* Variant of Exhausted that needs one more failure.
ExhaustedLate(cnt) == cnt > MaxConnRetries

Exhausted(cnt) == cnt >= MaxConnRetries

\* Math.min(15000, Math.pow(2, connectionRetryCount.current) * 1000), read
\* after connectionRetryCount.current++
\* Variant of Backoff computed from the counter before the increment.
BackoffFromZero(cnt) == Min(BackoffCapMs, Pow2(cnt - 1) * BackoffBaseMs)

Backoff(cnt) == Min(BackoffCapMs, Pow2(cnt) * BackoffBaseMs)

\* onopen: connectionRetryCount.current = 0
\* Variant of RetryCountOnOpen that forgets the reset.
RetryCountKept(cnt) == cnt

RetryCountOnOpen(cnt) == 0

\* History: the count of consecutive onerror events since the counter was 0
\* with status RECORDING; -1 once anything else touched status or counter.
StreakReset(st, cnt) == IF st = RECORDING /\ cnt = 0 THEN 0 ELSE -1

StreakNext == IF streak < 0 THEN -1 ELSE Min(streak + 1, lim.streak)

\* setTimeout(connectToLive, ms) fires.  The closure is the one of the render
\* in which startRecording was called (cap).
ConnectFires(t) ==
  /\ BagIn(t, connectTimers)
  /\ connectTimers' = connectTimers (-) SetToBag({t})
  /\ IF status # RECORDING /\ status # PAUSED
     THEN UNCHANGED <<sessionRef, conns, nextConnId, scriptProcessorRef,
                      audioContextRef>>
     ELSE /\ nextConnId <= lim.conns
          /\ sessionRef' = Null
          /\ scriptProcessorRef' = Null
          /\ audioContextRef' = nextConnId
          /\ conns' = ConnsAfterCleanup \cup
                        {[id |-> nextConnId, open |-> FALSE, cap |-> t.cap,
                          audio |-> FALSE]}
          /\ nextConnId' = nextConnId + 1
  /\ UNCHANGED <<reactVars, segVars, queueVars, connectionRetryCount, micPending,
                 streak, nextSessId, testVars, audioStream, orphanTracks, frames>>

\* onopen: if (!audioStream) return; with the audioStream of the closure.
AttachesAudio(cap) == cap.stream # Null

\* The session opens: onopen runs and "sessionRef.current = await
\* sessionPromise" resumes.  onopen wires the processor of this session to
\* its context (inputCtx); a context that cleanupSession closed meanwhile
\* processes nothing, and whether createMediaStreamSource then throws before
\* scriptProcessorRef is assigned is left open.
ConnOpen(c) ==
  /\ c \in conns /\ ~c.open
  /\ conns' = (conns \ {c}) \cup
               {[c EXCEPT !.open = TRUE,
                          !.audio = AttachesAudio(c.cap) /\ audioContextRef = c.id]}
  /\ connectionRetryCount' = RetryCountOnOpen(connectionRetryCount)
  /\ sessionRef' = c.id
  /\ scriptProcessorRef' \in
       IF ~AttachesAudio(c.cap) THEN {scriptProcessorRef}
       ELSE IF audioContextRef = c.id THEN {c.id}
       ELSE {c.id, scriptProcessorRef}
  /\ streak' = StreakReset(status, connectionRetryCount')
  /\ UNCHANGED <<reactVars, segVars, queueVars, micPending, connectTimers,
                 nextConnId, nextSessId, testVars, audioStream, orphanTracks,
                 audioContextRef,
                 frames>>

\* ai.live.connect rejects: the catch block of connectToLive.
ConnectRejected(c) ==
  /\ c \in conns /\ ~c.open
  /\ conns' = conns \ {c}
  /\ status' = ERROR
  /\ streak' = -1
  /\ UNCHANGED <<segments, elapsedTime, sessions, viewingSessionId, isBilingual,
                 segVars, queueVars, connectionRetryCount, sessionRef, micPending,
                 connectTimers, nextConnId, nextSessId, testVars, audioVars>>

\* onerror of a session
OnError(c) ==
  /\ c \in conns
  /\ IF CanReconnect(connectionRetryCount, status)
     THEN /\ BagCardinality(connectTimers) < lim.timers
          /\ connectionRetryCount' = connectionRetryCount + 1
          /\ connectTimers' = connectTimers (+)
               SetToBag({[cap |-> c.cap, delay |-> Backoff(connectionRetryCount')]})
          /\ UNCHANGED status
     ELSE /\ status' = IF Exhausted(connectionRetryCount) THEN ERROR ELSE status
          /\ UNCHANGED <<connectionRetryCount, connectTimers>>
  /\ streak' = StreakNext
  /\ UNCHANGED <<segments, elapsedTime, sessions, viewingSessionId, isBilingual,
                 segVars, queueVars, sessionRef, conns, micPending, nextConnId,
                 nextSessId, testVars, audioVars>>

\* onmessage, the delta: it is added to the buffer, which is finalized if
\* ShouldFinalize.  The result is the refs as the finalize leaves them.
DeltaFinalizes(c, chunk) ==
  LET buf == transcriptionBufferRef \o chunk IN
  IF chunk # <<>> /\ ShouldFinalize(cleanText(buf))
  THEN FinalizeNow(buf, c.cap.elapsed, c.cap.bil)
  ELSE [created |-> FALSE, buf |-> buf, ref |-> segmentsRef,
        last |-> lastSegmentTimeRef, q |-> processingQueueRef, nid |-> nextSegId]

\* Variant of TurnFinalizes that ignores turnComplete.
TurnIgnored(c, f1, turnComplete) == f1

\* onmessage, turnComplete: what the delta left (f1) is finalized.
TurnFinalizes(c, f1, turnComplete) ==
  IF turnComplete
  THEN [finalizeCurrentSegment(f1.buf, f1.ref, f1.last, f1.q, f1.nid,
                               c.cap.elapsed, c.cap.bil)
          EXCEPT !.created = f1.created \/ @]
  ELSE f1

\* onmessage of an open session: a text delta (chunk, <<>> for none) and/or
\* turnComplete.  finalizeCurrentSegment is the one of the closure: it reads
\* the elapsedTime and isBilingual of that render (c.cap).
OnMessage(c, chunk, turnComplete) ==
  /\ c \in conns /\ c.open
  /\ chunk # <<>> \/ turnComplete
  /\ chunk # <<>> => Len(transcriptionBufferRef) <= lim.buf
  /\ \E f1 \in {DeltaFinalizes(c, chunk)} :
     \E f \in {TurnFinalizes(c, f1, turnComplete)} :
        /\ f.nid <= lim.segs + 1
        /\ transcriptionBufferRef' = f.buf
        /\ segmentsRef' = f.ref
        /\ lastSegmentTimeRef' = f.last
        /\ nextSegId' = f.nid
        /\ NoteCreated(f)
        /\ IF f.created
           THEN /\ segments' = f.ref
                /\ RunEffect(f.q, isProcessingRef, calls,
                             Env(f.ref, sessions, viewingSessionId, isBilingual))
           ELSE UNCHANGED <<segments, processingQueueRef, calls, isProcessingRef>>
  /\ UNCHANGED <<status, elapsedTime, sessions, viewingSessionId, isBilingual,
                 retryTimers, drainTimers, connVars, nextSessId, testVars, audioVars>>

\* onaudioprocess: if (statusRef.current === RecorderStatus.RECORDING)
\* Variant of Forwards that mutes only an idle recorder.
ForwardsUnlessIdle(st) == st # IDLE

Forwards(st) == st = RECORDING

\* History: the log keeps the last FrameLog events.
LastFrames(log) ==
  IF Len(log) <= FrameLog THEN log ELSE SubSeq(log, Len(log) - FrameLog + 1, Len(log))

\* onaudioprocess of the processor wired by the onopen of session c: the
\* frame is handed to sendRealtimeInput of that session if Forwards.
AudioFrame(c) ==
  /\ c \in conns /\ c.audio
  /\ frames' = LastFrames(Append(frames, [conn |-> c.id, status |-> status,
                                          sent |-> Forwards(status)]))
  /\ UNCHANGED <<reactVars, segVars, queueVars, connVars, nextSessId, testVars,
                 audioStream, orphanTracks, scriptProcessorRef, audioContextRef>>

\* ------------------------------------------------------------- lifecycle

\* The timer effect: setInterval(() => setElapsedTime(p => p + 1), 1000)
\* runs while status is RECORDING.
Tick ==
  /\ status = RECORDING
  /\ elapsedTime < lim.time
  /\ elapsedTime' = elapsedTime + 1
  /\ UNCHANGED <<status, segments, sessions, viewingSessionId, isBilingual, segVars,
                 queueVars, connVars, nextSessId, testVars, audioVars>>

\* startRecording up to "await getUserMedia".  The button is rendered when
\* status is IDLE or ERROR.  What connectToLive will close over is kept.
StartRecording ==
  /\ status \in {IDLE, ERROR}
  /\ micPending = {}
  /\ conns' = ConnsAfterCleanup
  /\ sessionRef' = Null
  /\ viewingSessionId' = Null
  /\ segments' = <<>>
  /\ segmentsRef' = <<>>
  /\ elapsedTime' = 0
  /\ lastSegmentTimeRef' = 0
  /\ transcriptionBufferRef' = <<>>
  /\ processingQueueRef' = <<>>
  /\ connectionRetryCount' = 0
  /\ scriptProcessorRef' = Null
  /\ audioContextRef' = Null
  /\ micPending' = {[elapsed |-> elapsedTime, bil |-> isBilingual,
                     stream |-> audioStream]}
  /\ streak' = StreakReset(status, 0)
  /\ UNCHANGED <<status, sessions, isBilingual, nextSegId, origText, isProcessingRef,
                 retryTimers, drainTimers, calls, attempts, connectTimers,
                 nextConnId, nextSessId, testVars, audioStream, orphanTracks, frames>>

\* The MediaStream getUserMedia resolves with.
Stream == 1

\* getUserMedia resolves: setAudioStream(stream); setStatus(RECORDING);
\* setTimeout(connectToLive, 300).  A stream that audioStream held is replaced
\* without its tracks being stopped.
MicGranted(cap) ==
  /\ cap \in micPending
  /\ micPending' = {}
  /\ audioStream' = Stream
  /\ orphanTracks' = (orphanTracks \/ audioStream # Null)
  /\ status' = RECORDING
  /\ connectTimers' = connectTimers (+) SetToBag({[cap |-> cap, delay |-> ConnectDelayMs]})
  /\ streak' = StreakReset(RECORDING, connectionRetryCount)
  /\ UNCHANGED <<segments, elapsedTime, sessions, viewingSessionId, isBilingual,
                 segVars, queueVars, connectionRetryCount, sessionRef, conns,
                 nextConnId, nextSessId, testVars, scriptProcessorRef,
                 audioContextRef, frames>>

\* getUserMedia rejects: the catch block of startRecording.
MicDenied(cap) ==
  /\ cap \in micPending
  /\ micPending' = {}
  /\ status' = ERROR
  /\ streak' = -1
  /\ UNCHANGED <<segments, elapsedTime, sessions, viewingSessionId, isBilingual,
                 segVars, queueVars, connectionRetryCount, sessionRef, conns,
                 connectTimers, nextConnId, nextSessId, testVars, audioVars>>

\* pauseRecording (button rendered while RECORDING)
PauseRecording ==
  /\ status = RECORDING
  /\ status' = PAUSED
  /\ streak' = -1
  /\ UNCHANGED <<segments, elapsedTime, sessions, viewingSessionId, isBilingual,
                 segVars, queueVars, connectionRetryCount, sessionRef, conns,
                 micPending, connectTimers, nextConnId, nextSessId, testVars, audioVars>>

\* resumeRecording (button rendered while PAUSED)
ResumeRecording ==
  /\ status = PAUSED
  /\ status' = RECORDING
  /\ streak' = StreakReset(RECORDING, connectionRetryCount)
  /\ UNCHANGED <<segments, elapsedTime, sessions, viewingSessionId, isBilingual,
                 segVars, queueVars, connectionRetryCount, sessionRef, conns,
                 micPending, connectTimers, nextConnId, nextSessId, testVars, audioVars>>

\* stopRecording, as called by the render current at the click; view is the
\* session the caller selects afterwards (Null: the new session stays viewed).
\* The title request that follows touches only the session's title.
StopBody(view) ==
  /\ status # IDLE
  /\ nextSessId <= lim.sess
  /\ \E f \in {FinalizeNow(transcriptionBufferRef, elapsedTime, isBilingual)} :
     LET newSession == [id |-> nextSessId, segments |-> f.ref]
         updated == <<newSession>> \o sessions
         v == IF view = Null THEN newSession.id ELSE view
     IN /\ f.nid <= lim.segs + 1
        /\ transcriptionBufferRef' = f.buf
        /\ lastSegmentTimeRef' = f.last
        /\ nextSegId' = f.nid
        /\ NoteCreated(f)
        /\ sessions' = updated
        /\ viewingSessionId' = v
        /\ RunEffect(f.q, isProcessingRef, calls, Env(<<>>, updated, v, isBilingual))
  /\ audioStream' = Null
  /\ conns' = ConnsAfterCleanup
  /\ sessionRef' = Null
  /\ scriptProcessorRef' = Null
  /\ audioContextRef' = Null
  /\ status' = IDLE
  /\ segments' = <<>>
  /\ segmentsRef' = <<>>
  /\ nextSessId' = nextSessId + 1
  /\ streak' = -1
  /\ UNCHANGED <<elapsedTime, isBilingual, retryTimers, drainTimers,
                 connectionRetryCount, micPending, connectTimers, nextConnId,
                 testVars, orphanTracks, frames>>

\* The stop button (rendered while RECORDING or PAUSED)
StopRecording ==
  /\ status \in {RECORDING, PAUSED}
  /\ StopBody(Null)

\* A session of the sidebar is clicked: if (status !== IDLE) stopRecording();
\* setViewingSessionId(s.id)
SelectSession(sid) ==
  /\ sid \in Ids(sessions)
  /\ IF status # IDLE
     THEN StopBody(sid)
     ELSE /\ sid # viewingSessionId
          /\ viewingSessionId' = sid
          /\ RunEffect(processingQueueRef, isProcessingRef, calls,
                       Env(segments, sessions, sid, isBilingual))
          /\ UNCHANGED <<status, segments, elapsedTime, sessions, isBilingual, segVars,
                         retryTimers, drainTimers, attempts, connVars, nextSessId,
                         testVars, audioVars>>

\* The bilingual button: setIsBilingual(!isBilingual)
ToggleBilingual ==
  /\ isBilingual' = ~isBilingual
  /\ RunEffect(processingQueueRef, isProcessingRef, calls,
               Env(segments, sessions, viewingSessionId, isBilingual'))
  /\ UNCHANGED <<status, segments, elapsedTime, sessions, viewingSessionId, segVars,
                 retryTimers, drainTimers, attempts, connVars, nextSessId, testVars, audioVars>>

\* ------------------------------------------------------ inputs and specs

\* Text deltas of the transcription source.
Letter == <<"a">>
Word == <<"o", "k">>
Sentence == <<"T", "h", "e", " ", "q", "u", "i", "c", "k", " ", "b", "r", "o", "w", "n", " ", "f", "o", "x", " ", "j", "u", "m", "p", "s", ".">>
The == <<"T", "h", "e">>
Quick == <<" ", "q", "u", "i", "c", "k">>
Fox == <<" ", "f", "o", "x", ".">>

\* Texts the refinement service answers with ("" makes polish keep the text).
Responses == {<<"P">>}

InitApp(l) ==
  /\ status = IDLE
  /\ segments = <<>>
  /\ segmentsRef = <<>>
  /\ elapsedTime = 0
  /\ sessions = <<>>
  /\ viewingSessionId = Null
  /\ isBilingual = FALSE
  /\ transcriptionBufferRef = <<>>
  /\ lastSegmentTimeRef = 0
  /\ connectionRetryCount = 0
  /\ isProcessingRef = FALSE
  /\ processingQueueRef = <<>>
  /\ sessionRef = Null
  /\ conns = {}
  /\ micPending = {}
  /\ connectTimers = EmptyBag
  /\ retryTimers = EmptyBag
  /\ drainTimers = EmptyBag
  /\ calls = {}
  /\ nextSegId = 1
  /\ nextConnId = 1
  /\ nextSessId = 1
  /\ attempts = <<>>
  /\ origText = <<>>
  /\ streak = -1
  /\ audioStream = Null
  /\ orphanTracks = FALSE
  /\ scriptProcessorRef = Null
  /\ audioContextRef = Null
  /\ frames = <<>>
  /\ lim = l
  /\ input = <<>>
  /\ output = <<>>

Lifecycle ==
  \/ StartRecording
  \/ \E cap \in micPending : MicGranted(cap)
  \/ \E cap \in micPending : MicDenied(cap)
  \/ PauseRecording
  \/ ResumeRecording
  \/ StopRecording

Connects ==
  \/ \E t \in BagToSet(connectTimers) : ConnectFires(t)
  \/ \E c \in conns : ConnOpen(c)

TransportFailures ==
  \/ \E c \in conns : ConnectRejected(c)
  \/ \E c \in conns : OnError(c)

Messages ==
  \E c \in conns : \E chunk \in lim.chunks \cup {<<>>} : \E tc \in BOOLEAN :
    OnMessage(c, chunk, tc)

Queue ==
  \/ \E c \in calls : \E r \in lim.responses : CallSucceeds(c, r)
  \/ \E c \in calls : CallFails(c)
  \/ \E c \in calls : CooldownDone(c)
  \/ \E t \in BagToSet(retryTimers) : RetryFires(t)
  \/ \E t \in BagToSet(drainTimers) : DrainFires(t)

Viewing ==
  \/ \E sid \in Ids(sessions) : SelectSession(sid)
  \/ ToggleBilingual

Limits(ch, bf, sg, cn, ss, tm, fl, ti) ==
  [chunks |-> ch, buf |-> bf, segs |-> sg, conns |-> cn, sess |-> ss,
   time |-> tm, fails |-> fl, timers |-> ti, streak |-> MaxStreak,
   responses |-> Responses]

\* The application while the transport does not fail and within one second
\* of recording: lifecycle, transcript, enrichment queue, viewing.
Init == InitApp(Limits({Word}, MaxBuf, MaxSegs, MaxConns, MaxSessions, 0,
                       MaxFails, 0))

Next == Lifecycle \/ Connects \/ Messages \/ Queue \/ Viewing

Spec == Init /\ [][Next]_vars

\* One recording whose calls may fail until the retries are used up.
InitRetry == InitApp(Limits({Word}, MaxBuf, MaxSegs, MaxConns, MaxSessions, 0,
                            RetryFails, 0))

NextRetry ==
  \/ StartRecording
  \/ \E cap \in micPending : MicGranted(cap)
  \/ StopRecording
  \/ Connects
  \/ \E c \in conns : OnMessage(c, Word, TRUE)
  \/ Queue

SpecRetry == InitRetry /\ [][NextRetry]_vars

\* The same, with every timer that is set firing and every external call
\* and cooldown resolving; nothing is assumed of the user or the transport.
Resolves == \E c \in calls : CallFails(c) \/ \E r \in lim.responses : CallSucceeds(c, r)

SpecLive ==
  /\ InitRetry /\ [][NextRetry]_vars
  /\ WF_vars(Resolves)
  /\ WF_vars(\E c \in calls : CooldownDone(c))
  /\ WF_vars(\E t \in BagToSet(retryTimers) : RetryFires(t))
  /\ WF_vars(\E t \in BagToSet(drainTimers) : DrainFires(t))

\* The connection manager under transport errors: no transcript arrives.
InitConn == InitApp(Limits({}, 0, 0, ConnConns, MaxSessions, 0, 0, ConnTimers))

NextConn == Lifecycle \/ Connects \/ TransportFailures

SpecConn == InitConn /\ [][NextConn]_vars

\* The segmenter: deltas, triggers and the clock; no call resolves.
InitSeg == InitApp(Limits({Letter, Sentence}, SegBuf, SegSegs, MaxConns, MaxSessions,
                          SegTime, 0, 0))

NextSeg == Lifecycle \/ Tick \/ Connects \/ Messages \/ ToggleBilingual

SpecSeg == InitSeg /\ [][NextSeg]_vars

\* The scenario of three deltas and a turnComplete, bilingual on or off.
InitE2E == InitApp(Limits({The, Quick, Fox}, E2EBuf, E2ESegs, MaxConns, MaxSessions,
                          0, 0, 0))

NextE2E ==
  \/ StartRecording
  \/ \E cap \in micPending : MicGranted(cap)
  \/ StopRecording
  \/ Connects
  \/ Messages
  \/ ToggleBilingual

SpecE2E == InitE2E /\ [][NextE2E]_vars

\* The queue with the jobs of two segments, bilingual on or off.
InitFifo == InitApp(Limits({Word}, MaxBuf, FifoSegs, MaxConns, MaxSessions, 0,
                           FifoFails, 0))

NextFifo ==
  \/ StartRecording
  \/ \E cap \in micPending : MicGranted(cap)
  \/ StopRecording
  \/ Connects
  \/ \E c \in conns : OnMessage(c, Word, TRUE)
  \/ Queue
  \/ ToggleBilingual

SpecFifo == InitFifo /\ [][NextFifo]_vars

\* The normalizer alone: input grows by a phrase or a letter and is cleaned.
Phrase == <<"a", "a", "a", "b">>
Coda == <<"b">>

Normalize(u) ==
  /\ Len(input) + Len(u) <= MaxCleanLen
  /\ input' = input \o u
  /\ output' = cleanText(input')
  /\ UNCHANGED <<reactVars, segVars, queueVars, connVars, nextSessId, lim, audioVars>>

\* Long deltas: 60 characters without a sentence end, and the same with one
\* more character.
Long == <<"t", "h", "e", " ", "q", "u", "i", "c", "k", " ", "b", "r", "o", "w", "n", " ", "f", "o", "x", " ", "j", "u", "m", "p", "s", " ", "o", "v", "e", "r", " ", "t", "h", "e", " ", "l", "a", "z", "y", " ", "d", "o", "g", " ", "a", "n", "d", " ", "k", "e", "e", "p", "s", " ", "r", "u", "n", "n", "i", "n">>
Longer == Long \o <<"g">>

\* The length trigger: long deltas accumulate up to and beyond HighWater.
InitLen == InitApp(Limits({Long, Longer}, LenBuf, LenSegs, MaxConns, MaxSessions, 0, 0, 0))

NextLen ==
  \/ StartRecording
  \/ \E cap \in micPending : MicGranted(cap)
  \/ Connects
  \/ Messages
  \/ StopRecording

SpecLen == InitLen /\ [][NextLen]_vars

\* Deltas that end a sentence or a line: 3 characters with a full stop, and
\* 31 characters with a newline at the end.
Hi == <<"H", "i", ".">>
Line == <<"t", "h", "e", " ", "q", "u", "i", "c", "k", " ", "b", "r", "o", "w", "n", " ", "f", "o", "x", " ", "j", "u", "m", "p", "s", " ", "o", "v", "e", "r", "\n">>

\* The punctuation trigger: short and long deltas that end with a mark.
InitMark == InitApp(Limits({Hi, Sentence, Line}, MarkBuf, MarkSegs, MaxConns, MaxSessions,
                           0, 0, 0))

NextMark ==
  \/ StartRecording
  \/ \E cap \in micPending : MicGranted(cap)
  \/ Connects
  \/ Messages
  \/ StopRecording

SpecMark == InitMark /\ [][NextMark]_vars

\* Stopping: recordings with short deltas, failed connects and restarts from
\* ERROR, stopped by the button or by selecting a session.
InitStop == InitApp(Limits({Letter, Word}, StopBuf, StopSegs, StopConns, MaxSessions,
                           0, 0, 0))

NextStop ==
  \/ Lifecycle
  \/ Connects
  \/ \E c \in conns : ConnectRejected(c)
  \/ Messages
  \/ \E sid \in Ids(sessions) : SelectSession(sid)

SpecStop == InitStop /\ [][NextStop]_vars

\* Two recordings under transport errors, with the sidebar in use: no
\* transcript arrives.
InitErr == InitApp(Limits({}, 0, 0, ErrConns, ErrSessions, 0, 0, ErrTimers))

NextErr ==
  \/ Lifecycle
  \/ Connects
  \/ TransportFailures
  \/ \E sid \in Ids(sessions) : SelectSession(sid)

SpecErr == InitErr /\ [][NextErr]_vars

\* The audio path: recordings, restarts from ERROR, pause and resume, and
\* the frames of every wired processor.
InitAudio == InitApp(Limits({}, 0, 0, AudioConns, MaxSessions, 0, 0, 0))

NextAudio ==
  \/ Lifecycle
  \/ Connects
  \/ \E c \in conns : ConnectRejected(c)
  \/ \E c \in conns : AudioFrame(c)

SpecAudio == InitAudio /\ [][NextAudio]_vars

InitClean == InitApp(Limits({}, 0, 0, 0, 0, 0, 0, 0))

NextClean == \E u \in {Phrase, Coda} : Normalize(u)

SpecClean == InitClean /\ [][NextClean]_vars

\* The normalizer on texts typed character by character.
RunChars == {"a", "b", "\n"}

CleanChars(ch) ==
  /\ Len(input) < MaxRunText
  /\ input' = Append(input, ch)
  /\ output' = cleanText(input')
  /\ UNCHANGED <<reactVars, segVars, queueVars, connVars, nextSessId, lim, audioVars>>

NextRuns == \E ch \in RunChars : CleanChars(ch)

SpecRuns == InitClean /\ [][NextRuns]_vars

\* The normalizer on texts made of the words "hello" and "abc".
Hello == <<"h", "e", "l", "l", "o">>
Abc == <<"a", "b", "c">>

CleanWords(u) ==
  /\ Len(input) + Len(u) <= MaxPhraseText
  /\ input' = input \o u
  /\ output' = cleanText(input')
  /\ UNCHANGED <<reactVars, segVars, queueVars, connVars, nextSessId, lim, audioVars>>

NextPhrases == \E u \in {Hello, Abc} : CleanWords(u)

SpecPhrases == InitClean /\ [][NextPhrases]_vars

\* ---------------------------------------------------------------- claims

\* The jobs that exist: queued, waiting in a retry timer, or being processed.
QueuedJobs == { processingQueueRef[i] : i \in 1..Len(processingQueueRef) }
TimerJobs == { t.item : t \in BagToSet(retryTimers) }
Outstanding == { c \in calls : c.phase = "call" }
ActiveJobs == { c.item : c \in Outstanding }

\* C1: single-flight -- in every reachable state at most one external
\* refinement call (polishSegment or translateSegment) is outstanding, and the
\* busy flag is set while one is.
C1_SingleFlight ==
  /\ Cardinality(Outstanding) <= 1
  /\ Outstanding # {} => isProcessingRef

\* C1 witness: a call is outstanding while another job waits in the queue.
C1_Witness ==
  /\ Cardinality(Outstanding) = 1
  /\ processingQueueRef # <<>>
  /\ drainTimers # EmptyBag

\* The delays the spec lists for retryCount 0, 1, 2, continued by doubling.
ExpectedDelays == <<2000, 4000, 8000, 16000, 32000>>

\* C2: retry/backoff -- the n-th dispatch of a job carries retryCount n-1; a
\* failed dispatch with retryCount r < 5 schedules the re-enqueue after
\* 2000, 4000, 8000, ... ms (2^r * 2000); a successful dispatch is the job's
\* last one and the job is not enqueued again.
C2_RetryBackoff ==
  \A k \in DOMAIN attempts :
    LET log == attempts[k] IN
    /\ \A i \in 1..Len(log) :
         /\ log[i].rc = i - 1
         /\ (~log[i].ok /\ i <= 5) => log[i].delay = ExpectedDelays[i]
         /\ log[i].ok => i = Len(log)
    /\ (log # <<>> /\ Last(log).ok) =>
         \A j \in QueuedJobs \cup TimerJobs \cup ActiveJobs : JobKey(j) # k
    /\ \A t \in BagToSet(retryTimers) :
         JobKey(t.item) = k =>
           /\ Len(log) = t.item.retryCount + 1
           /\ t.delay = ExpectedDelays[Len(log)]

\* C2 witness: a job failed three times, with delays 2000, 4000, 8000, and
\* then succeeded.
C2_Witness ==
  \E k \in DOMAIN attempts :
    /\ Len(attempts[k]) = 4
    /\ [i \in 1..3 |-> attempts[k][i].delay] = <<2000, 4000, 8000>>
    /\ \A i \in 1..3 : ~attempts[k][i].ok
    /\ attempts[k][4].ok

\* Every copy of segment id that the live list or a session holds.
Copies(id) ==
  { segments[i] : i \in { j \in 1..Len(segments) : segments[j].id = id } } \cup
  UNION { { sessions[n].segments[i] :
              i \in { j \in 1..Len(sessions[n].segments) :
                        sessions[n].segments[j].id = id } } :
          n \in 1..Len(sessions) }

\* C3: retry cap -- no job carries retryCount above 5, a job is dispatched at
\* most 6 times, after its 6th failure it exists nowhere, and while none of
\* its dispatches succeeded the field it targets keeps its value from
\* finalize in every copy of the segment.
C3_RetryCap ==
  /\ \A j \in QueuedJobs \cup ActiveJobs : j.retryCount <= 5
  /\ \A j \in TimerJobs : j.retryCount < 5
  /\ \A k \in DOMAIN attempts :
       LET log == attempts[k] IN
       /\ Len(log) + Cardinality({ j \in ActiveJobs : JobKey(j) = k }) <= 6
       /\ Failures(log) = 6 =>
            \A j \in QueuedJobs \cup TimerJobs \cup ActiveJobs : JobKey(j) # k
       /\ Failures(log) = Len(log) =>
            \A seg \in Copies(k[1]) :
              IF k[2] = "polish" THEN seg.text = origText[k[1]]
              ELSE seg.translatedText = NoText

\* C3 witness: a polish job failed six times and its segment, still in a
\* list, has the text it was finalized with.
C3_Witness ==
  \E k \in DOMAIN attempts :
    /\ k[2] = "polish"
    /\ Failures(attempts[k]) = 6
    /\ Copies(k[1]) # {}
    /\ \A seg \in Copies(k[1]) : seg.text = origText[k[1]]

\* Every segment list the application holds, live or archived.
SessionLists == { sessions[n].segments : n \in 1..Len(sessions) }
AllLists == {segments, segmentsRef} \cup SessionLists

Contiguous(list) ==
  \A i \in 1..(Len(list) - 1) : list[i + 1].startTime = list[i].endTime

StartsAtZero(list) == list # <<>> => list[1].startTime = 0

\* C4: timeline contiguity -- in every segment list each segment starts where
\* the one before it ends, and while a recording is in progress (RECORDING or
\* PAUSED) the first segment of the live list starts at 0.
C4_Contiguity ==
  /\ \A list \in AllLists : Contiguous(list)
  /\ status \in {RECORDING, PAUSED} =>
       StartsAtZero(segments) /\ StartsAtZero(segmentsRef)

\* C4 witness: a recording with two segments that meet at second 1.
C4_Witness ==
  /\ status = RECORDING
  /\ Len(segments) = 2
  /\ segments[1].startTime = 0
  /\ segments[1].endTime = 1
  /\ segments[2].startTime = 1

\* C5: every segment ends at least one second after it starts
\* (endTime >= startTime + 1).
C5_PositiveLength ==
  \A list \in AllLists : \A i \in 1..Len(list) :
    list[i].endTime >= list[i].startTime + 1

ShortBuffer(buf) == Len(cleanText(buf)) < 2

JobsOf(q) == { q[i] : i \in 1..Len(q) }

\* C6: discard-short -- a finalize (on turnComplete or on stop) whose cleaned
\* buffer has fewer than 2 characters creates no segment, enqueues no job and
\* leaves the boundary lastSegmentTimeRef where it was.
C6_DiscardShort ==
  [][ /\ \A c \in conns : \A chunk \in lim.chunks \cup {<<>>} :
           (ShortBuffer(transcriptionBufferRef \o chunk) /\ OnMessage(c, chunk, TRUE))
           => /\ segmentsRef' = segmentsRef
              /\ segments' = segments
              /\ nextSegId' = nextSegId
              /\ processingQueueRef' = processingQueueRef
              /\ DOMAIN attempts' = DOMAIN attempts
              /\ lastSegmentTimeRef' = lastSegmentTimeRef
      /\ (ShortBuffer(transcriptionBufferRef) /\ StopRecording)
           => /\ sessions'[1].segments = segmentsRef
              /\ nextSegId' = nextSegId
              /\ JobsOf(processingQueueRef') \subseteq JobsOf(processingQueueRef)
              /\ DOMAIN attempts' = DOMAIN attempts
              /\ lastSegmentTimeRef' = lastSegmentTimeRef
    ]_vars

\* C6 witness: a recording was stopped with the one-character buffer "a"; the
\* archived session has no segment, no job exists and the boundary is at 0
\* although a second has passed.
C6_Witness ==
  /\ status = IDLE
  /\ transcriptionBufferRef = Letter
  /\ sessions # <<>> /\ sessions[1].segments = <<>>
  /\ processingQueueRef = <<>> /\ DOMAIN attempts = {}
  /\ elapsedTime = 1 /\ lastSegmentTimeRef = 0

\* C7 as stated: 5 consecutive transport failures (onerror with no
\* intervening successful open) transition RecorderStatus to Error.
C7_FiveFailuresError == streak >= 5 => status = ERROR

\* C7 amended: starting from counter 0 while recording, each of the first 5
\* consecutive transport failures schedules a reconnect, counts up and leaves
\* the status RECORDING; the 6th consecutive failure sets the status to Error.
C7_SixthFailureError ==
  /\ streak \in 1..5 => status = RECORDING /\ connectionRetryCount = streak
  /\ streak >= 6 => status = ERROR /\ connectionRetryCount = 5

\* C7 witness: the sixth consecutive failure has happened.
C7_Witness == streak = 6 /\ status = ERROR

\* C8: the reconnect counter is 0 after every successful open, and the first
\* failure after an open while recording counts 1 and schedules the reconnect
\* with the first delay of the backoff sequence, as after startRecording.
C8_OpenResetsCounter ==
  [][ /\ (\E c \in conns : ConnOpen(c)) => connectionRetryCount' = 0
      /\ (streak = 0 /\ \E c \in conns : OnError(c)) =>
           /\ connectionRetryCount' = 1
           /\ \E c \in conns :
                connectTimers' = connectTimers (+)
                  SetToBag({[cap |-> c.cap, delay |-> Min(15000, 2 * 1000)]})
    ]_vars

\* C8 witness: two failures happened (their reconnect delay 4000 is still
\* pending), then a session opened and the counter is 0 again.
C8_Witness ==
  /\ status = RECORDING
  /\ connectionRetryCount = 0 /\ streak = 0
  /\ \E c \in conns : c.open
  /\ \E t \in BagToSet(connectTimers) : t.delay = 4000

Story == <<The, Quick, Fox>>

RECURSIVE Told(_)
Told(n) == IF n = 0 THEN <<>> ELSE Told(n - 1) \o Story[n]

Pending == JobsOf(processingQueueRef) \cup { c.item : c \in calls }

\* C9: end-to-end -- while a recording started with bilingual mode off is in
\* progress, the deltas "The", " quick", " fox." arriving in this order create no segment;
\* the turnComplete that follows creates exactly one segment, with text
\* "The quick fox.", and exactly one new job, a Polish for that segment (no
\* Translate).
C9_EndToEnd ==
  [][ \A c \in conns : (status = RECORDING /\ ~c.cap.bil) =>
        /\ \A n \in 0..2 :
             (transcriptionBufferRef = Told(n) /\ OnMessage(c, Story[n + 1], FALSE))
             => /\ transcriptionBufferRef' = Told(n + 1)
                /\ segmentsRef' = segmentsRef /\ segments' = segments
                /\ nextSegId' = nextSegId
                /\ Pending' = Pending
        /\ (transcriptionBufferRef = Told(3) /\ OnMessage(c, <<>>, TRUE))
             => /\ Len(segmentsRef') = Len(segmentsRef) + 1
                /\ Last(segmentsRef').text =
                     <<"T", "h", "e", " ", "q", "u", "i", "c", "k", " ", "f", "o", "x", ".">>
                /\ segments' = segmentsRef'
                /\ transcriptionBufferRef' = <<>>
                /\ Pending' \ Pending = {Job(Last(segmentsRef').id, "polish", 0)}
    ]_vars

\* C9 witness: the segment "The quick fox." exists, its Polish is pending and
\* nothing else is.
C9_Witness ==
  /\ status = RECORDING /\ ~isBilingual
  /\ Len(segments) = 1 /\ segments[1].text = Told(3)
  /\ transcriptionBufferRef = <<>>
  /\ Pending = {Job(segments[1].id, "polish", 0)}

\* C10: clean is idempotent -- cleaning a cleaned text changes nothing
\* (clean(clean(s)) = clean(s)).
C10_Idempotent == cleanText(output) = output

Uniform(s) == s # <<>> /\ \A i \in 1..Len(s) : s[i] = s[1]

\* Positions where a maximal run of at least n equal characters starts.
RunStarts(s, n) ==
  { i \in 1..Len(s) :
      /\ i = 1 \/ s[i - 1] # s[i]
      /\ i + n - 1 <= Len(s)
      /\ \A k \in 0..(n - 1) : s[i + k] = s[i] }

\* Position i continues a run of at least n characters that the "." matches.
InLongRun(s, i, n) ==
  \E j \in RunStarts(s, n) :
    /\ s[j] \notin {"\n", "\r"}
    /\ j < i
    /\ \A k \in j..i : s[k] = s[j]

\* s with every such run cut down to its first character.
RECURSIVE Squashed(_, _, _)
Squashed(s, i, n) ==
  IF i > Len(s) THEN <<>>
  ELSE (IF InLongRun(s, i, n) THEN <<>> ELSE <<s[i]>>) \o Squashed(s, i + 1, n)

Periodic(s, L) ==
  /\ Len(s) % L = 0
  /\ \A i \in 1..(Len(s) - L) : s[i + L] = s[i]

\* The shortest unit s is made of.
Unit(s) == CHOOSE L \in 1..Len(s) : Periodic(s, L) /\ \A M \in 1..(L - 1) : ~Periodic(s, M)

\* s contains a substring of at least 4 characters three times in a row.
HasRepeat(s) ==
  \E i \in 1..Len(s) : \E L \in 4..Len(s) :
    /\ i + 3 * L - 1 <= Len(s)
    /\ \A j \in 0..(2 * L - 1) : s[i + L + j] = s[i + j]

\* C12: a text made of 3 or more copies of a unit of at least 4 characters is
\* cleaned to one copy of the unit, and a text with no run of 6 or more
\* identical characters and no substring of at least 4 characters repeated 3
\* times in a row is returned unchanged apart from the trimming.
C12_PhraseCollapse ==
  /\ (input # <<>> /\ Unit(input) >= 4 /\ Len(input) >= 3 * Unit(input)) =>
       output = SubSeq(input, 1, Unit(input))
  /\ (RunStarts(input, 6) = {} /\ ~HasRepeat(input)) => output = Trim(input)

\* The jobs a step pushes, in the order of the pushes: those of a segment
\* created in the step (polish, then translate if it has one), or the retry a
\* timer of the step re-enqueues.
Pushed ==
  IF nextSegId' # nextSegId
  THEN <<Job(nextSegId, "polish", 0)>> \o
       (IF <<nextSegId, "translate">> \in DOMAIN attempts'
        THEN <<Job(nextSegId, "translate", 0)>> ELSE <<>>)
  ELSE IF \E t \in BagToSet(retryTimers) : retryTimers = retryTimers' (+) SetToBag({t})
       THEN LET t == CHOOSE u \in BagToSet(retryTimers) :
                       retryTimers = retryTimers' (+) SetToBag({u})
            IN <<[t.item EXCEPT !.retryCount = @ + 1]>>
       ELSE <<>>

\* The jobs a step takes from the queue and starts.
Taken ==
  { c.item : c \in { d \in calls' \ calls : [d EXCEPT !.phase = "call"] \notin calls } }

\* C13: FIFO draining -- every step leaves in the queue a suffix of what it
\* held followed by what the step pushed (polish before translate), so jobs
\* leave only from the front, and the job a step starts is the last one it
\* removed: of two jobs queued together, the one pushed earlier is started or
\* discarded first.
C13_Fifo ==
  [][ LET full == processingQueueRef \o Pushed IN
      \E k \in 0..Len(full) :
        /\ processingQueueRef' = SubSeq(full, k + 1, Len(full))
        /\ Taken = {} \/ (k > 0 /\ Taken = {full[k]})
    ]_vars

\* C13 witness: the polish of the first segment is in progress while its
\* translate and the jobs of the second segment wait in the order pushed.
C13_Witness ==
  /\ \E c \in calls : c.item = Job(1, "polish", 0) /\ c.phase = "call"
  /\ processingQueueRef =
       <<Job(1, "translate", 0), Job(2, "polish", 0), Job(2, "translate", 0)>>

\* The step is an onerror of session c that schedules a reconnect after d ms.
ReconnectIn(c, d) ==
  /\ OnError(c)
  /\ connectTimers' = connectTimers (+) SetToBag({[cap |-> c.cap, delay |-> d]})

\* C14 as stated: a transport error with status Recording or Paused and
\* counter r < 5 schedules the reconnect after min(15000, 2^r * 1000) ms, r
\* being the counter before the increment (1000, 2000, 4000, 8000, 15000).
C14_DelayBeforeIncrement ==
  [][ \A c \in conns :
        (status \in {RECORDING, PAUSED} /\ connectionRetryCount < 5 /\ OnError(c))
        => ReconnectIn(c, Min(15000, Pow2(connectionRetryCount) * 1000))
    ]_vars

DelaysAfterOpen == <<2000, 4000, 8000, 15000, 15000>>

\* C14 amended: the delay is min(15000, 2^r * 1000) ms with r the counter
\* after the increment, so the successive delays after a successful open (or
\* after startRecording) are 2000, 4000, 8000, 15000 and 15000 ms.
C14_DelayAfterIncrement ==
  [][ \A c \in conns :
        /\ (status \in {RECORDING, PAUSED} /\ connectionRetryCount < 5 /\ OnError(c))
           => /\ connectionRetryCount' = connectionRetryCount + 1
              /\ ReconnectIn(c, Min(15000, Pow2(connectionRetryCount + 1) * 1000))
        /\ (streak \in 0..4 /\ OnError(c)) => ReconnectIn(c, DelaysAfterOpen[streak + 1])
    ]_vars

\* C14 witness: five failures in a row have scheduled their reconnects and
\* none has fired yet: 2000, 4000, 8000 and twice 15000 ms.
C14_Witness ==
  /\ streak = 5 /\ status = RECORDING
  /\ BagCardinality(connectTimers) = 5
  /\ { t.delay : t \in BagToSet(connectTimers) } = {2000, 4000, 8000, 15000}

\* What C15 asks of a step that is a connection failure.
RetriedNotError ==
  /\ (status' = ERROR /\ status # ERROR) => connectionRetryCount >= 5
  /\ (status \in {RECORDING, PAUSED} /\ connectionRetryCount < 5) =>
       /\ status' = status
       /\ BagCardinality(connectTimers') = BagCardinality(connectTimers) + 1

\* C15: the connection manager sets the status to Error only when the retry
\* counter has reached 5; a connection failure (an onerror or a rejected
\* connect) with counter < 5 while Recording or Paused schedules a reconnect
\* and does not set Error.
C15_ErrorOnlyAfterExhaustion ==
  [][ \A c \in conns : (OnError(c) \/ ConnectRejected(c)) => RetriedNotError ]_vars

\* C16: a frame handed to onaudioprocess is sent to its session exactly when
\* the status is RECORDING at that moment (never while PAUSED, IDLE or
\* ERROR); pause and resume leave the sessions and the audio wiring as they
\* are, so that after a resume the frames go to the same session.
FrameOf(c) == [conn |-> c.id, status |-> status, sent |-> status = RECORDING]

WiringKept ==
  /\ conns' = conns
  /\ sessionRef' = sessionRef
  /\ scriptProcessorRef' = scriptProcessorRef
  /\ audioContextRef' = audioContextRef

C16_AudioGating ==
  [][ /\ \A c \in conns : AudioFrame(c) => frames'[Len(frames')] = FrameOf(c)
      /\ PauseRecording \/ ResumeRecording => WiringKept ]_vars

\* A frame was captured and dropped while PAUSED, and the next frame, after
\* the resume, was sent to the same session.
C16_Witness ==
  /\ Len(frames) = FrameLog
  /\ frames[1].status = PAUSED /\ ~frames[1].sent
  /\ frames[2].status = RECORDING /\ frames[2].sent
  /\ frames[1].conn = frames[2].conn
  /\ \E c \in conns : c.id = frames[2].conn /\ c.audio

\* The segment list of the session viewed after the step.
ViewedAfter == ActiveSegments(Env(segments', sessions', viewingSessionId', isBilingual'))

\* The jobs a step takes out of the queue.
TakenOut == QueuedJobs \ { processingQueueRef'[i] : i \in 1..Len(processingQueueRef') }

\* A step that ends with the recorder stopped and an archived session viewed,
\* which was already the viewed one if the recorder was stopped before.
StoppedAndViewed ==
  /\ status' = IDLE /\ viewingSessionId' # Null
  /\ status = IDLE => viewingSessionId' = viewingSessionId

\* C17: stopRecording removes no job from the queue, and while the archived
\* session stays viewed every job taken out of the queue whose segment is in
\* that session is dispatched by a processQueue that resolves it in that
\* session's list; none is dropped or dispatched against another list.
C17_StopKeepsJobs ==
  [][ StoppedAndViewed =>
        \A j \in TakenOut :
          j.id \in Ids(ViewedAfter) =>
            \E c \in calls' \ calls :
              c.item = j /\ c.env.view = viewingSessionId' ]_vars

\* The collection that is authoritative before the step: the segment list of
\* the viewed session, or the live list if none is viewed.
Authoritative == ActiveSegments(Env(segments, sessions, viewingSessionId, isBilingual))

FieldOf(seg, type) == IF type = "polish" THEN seg.text ELSE seg.translatedText

ResultOf(c, response) ==
  IF c.item.type = "polish" THEN Polished(c, response) ELSE Translated(response)

\* C18: whenever a polish or translate call succeeds and the authoritative
\* collection holds a segment with the job's id, the field of that segment
\* is the result afterwards, whatever happened between dispatch and result.
C18_ResultApplied ==
  [][ \A c \in calls : \A r \in lim.responses :
        (CallSucceeds(c, r) /\ c.item.id \in Ids(Authoritative)) =>
          FieldOf(Find(ViewedAfter, c.item.id), c.item.type) = ResultOf(c, r) ]_vars

\* The jobs of kind type with retryCount 0 that the step adds for the segment
\* it creates, waiting in the queue or already dispatched.
JobsAdded(type) ==
  Cardinality({ i \in 1..Len(processingQueueRef') :
                  processingQueueRef'[i] = [id |-> nextSegId, type |-> type,
                                            retryCount |-> 0] })
  + Cardinality({ c \in calls' \ calls :
                    c.item = [id |-> nextSegId, type |-> type, retryCount |-> 0] })

JobsAfter == { processingQueueRef'[i] : i \in 1..Len(processingQueueRef') }
               \cup { c.item : c \in calls' }

\* C19: a step that finalizes a segment into the list on display adds exactly
\* one polish job for it, and exactly one translate job if bilingual mode is
\* on at that moment and none otherwise; toggling bilingual mode adds no job.
C19_JobsPerFinalize ==
  [][ /\ (nextSegId' # nextSegId /\ (status' = IDLE \/ viewingSessionId = Null)) =>
           /\ JobsAdded("polish") = 1
           /\ JobsAdded("translate") = IF isBilingual THEN 1 ELSE 0
      /\ isBilingual' # isBilingual =>
           JobsAfter \subseteq QueuedJobs \cup { c.item : c \in calls } ]_vars

\* C20: when a translate job is taken out of the queue while bilingual mode
\* is off, no external call is started for it (so no result can change its
\* segment): it goes straight to the cooldown of a success, and no retry is
\* scheduled.
C20_TranslateNoOp ==
  [][ \A j \in TakenOut :
        (j.type = "translate" /\ ~isBilingual') =>
          /\ \A c \in calls' \ calls : c.item = j => c.phase = "cooldown"
          /\ retryTimers' = retryTimers ]_vars

\* C21: after every finalize (by turnComplete or by stopRecording), whether
\* it created a segment or discarded the text, the pending buffer is empty.
C21_BufferEmptyAfterFinalize ==
  [][ /\ \A c \in conns : \A chunk \in lim.chunks \cup {<<>>} :
           OnMessage(c, chunk, TRUE) => transcriptionBufferRef' = <<>>
      /\ StopRecording => transcriptionBufferRef' = <<>> ]_vars

\* C22: when a delta leaves a cleaned buffer longer than 120 characters, the
\* handling of that delta appends a segment with exactly that cleaned text,
\* whatever its last character, and empties the buffer; so the cleaned
\* pending buffer is never longer than 120 characters after a delta.
C22_LengthTrigger ==
  [][ \A c \in conns : \A chunk \in lim.chunks : \A tc \in BOOLEAN :
        OnMessage(c, chunk, tc) =>
          /\ Len(cleanText(transcriptionBufferRef')) <= 120
          /\ Len(cleanText(transcriptionBufferRef \o chunk)) > 120 =>
               /\ Len(segmentsRef') = Len(segmentsRef) + 1
               /\ segmentsRef'[Len(segmentsRef')].text =
                    cleanText(transcriptionBufferRef \o chunk)
               /\ transcriptionBufferRef' = <<>> ]_vars

\* C22 witness: a segment of 121 characters that does not end a sentence was
\* cut by the length trigger, and the buffer is empty.
C22_Witness ==
  /\ segmentsRef # <<>>
  /\ Len(segmentsRef[1].text) = 121
  /\ segmentsRef[1].text[121] \notin SentenceEnd
  /\ transcriptionBufferRef = <<>>

\* The handling of a delta has run a finalize on the buffer b: a segment was
\* appended, or the cleaned text was too short for one.
FinalizeRan(b) ==
  \/ Len(segmentsRef') = Len(segmentsRef) + 1
  \/ Len(cleanText(b)) < 2

\* C23: a delta that leaves a buffer of more than 25 characters whose last
\* character is a sentence-ending mark or a newline is finalized while it is
\* handled; a delta that leaves 25 characters or fewer creates no segment
\* unless the message is also a turnComplete.
C23_PunctuationTrigger ==
  [][ \A c \in conns : \A chunk \in lim.chunks : \A tc \in BOOLEAN :
        OnMessage(c, chunk, tc) =>
          LET b == transcriptionBufferRef \o chunk IN
          /\ (Len(b) > 25 /\ b[Len(b)] \in SentenceEnd) => FinalizeRan(b)
          /\ (Len(b) <= 25 /\ ~tc) => segmentsRef' = segmentsRef ]_vars

\* C24: a message with turnComplete finalizes what the buffer holds after its
\* delta: a cleaned text of at least 2 characters becomes exactly one new
\* segment, whatever its length and last character, also when the delta had
\* already triggered a finalize; a shorter one becomes none.
C24_TurnComplete ==
  [][ \A c \in conns : \A chunk \in lim.chunks \cup {<<>>} :
        OnMessage(c, chunk, TRUE) =>
          LET text == cleanText(transcriptionBufferRef \o chunk) IN
          IF Len(text) >= 2
          THEN /\ Len(segmentsRef') = Len(segmentsRef) + 1
               /\ segmentsRef'[Len(segmentsRef')].text = text
               /\ transcriptionBufferRef' = <<>>
          ELSE segmentsRef' = segmentsRef ]_vars

\* C24 witness: the three characters "Hi.", below both thresholds, are a
\* segment of the recording in progress.
C24_Witness ==
  /\ status = RECORDING
  /\ Len(segmentsRef) = 1 /\ segmentsRef[1].text = Hi
  /\ transcriptionBufferRef = <<>>

\* C25: a step of stopRecording from a non-idle status archives the segment
\* list after one finalize (a pending buffer that cleans to at least 2
\* characters is the last segment of the new session, a shorter one adds
\* nothing), and leaves the session handle released, the audio capture
\* released (no stream held, no stream with live tracks) and status IDLE.
C25_StopFlush ==
  [][ (status # IDLE /\ status' = IDLE) =>
        LET text == cleanText(transcriptionBufferRef)
            archived == sessions'[1].segments
        IN /\ IF Len(text) >= 2
              THEN /\ Len(archived) = Len(segmentsRef) + 1
                   /\ SubSeq(archived, 1, Len(segmentsRef)) = segmentsRef
                   /\ archived[Len(archived)].text = text
              ELSE archived = segmentsRef
           /\ sessionRef' = Null
           /\ audioStream' = Null /\ ~orphanTracks' ]_vars

\* C26: pauseRecording finalizes: after the pause a pending buffer that
\* cleaned to at least 2 characters has become a segment, and the buffer is
\* empty.
C26_PauseFlush ==
  [][ PauseRecording =>
        /\ transcriptionBufferRef' = <<>>
        /\ Len(cleanText(transcriptionBufferRef)) >= 2 =>
             /\ Len(segmentsRef') = Len(segmentsRef) + 1
             /\ segmentsRef'[Len(segmentsRef')].text = cleanText(transcriptionBufferRef) ]_vars

\* C27: a job taken out of the queue is dropped without being dispatched
\* only if no segment with its id is in the collection that is authoritative
\* at that moment; a job whose segment is there is dispatched.
C27_DiscardOnlyUnresolvable ==
  [][ \A j \in TakenOut :
        j.id \in Ids(ViewedAfter) => \E c \in calls' \ calls : c.item = j ]_vars

Cooling == { c \in calls : c.phase = "cooldown" }

\* C28: from the success of an external call until its cooldown timer
\* resolves the busy flag is set and no other call is dispatched, whatever
\* is enqueued, re-rendered or fired meanwhile.
C28_CooldownPacing ==
  \A c \in Cooling : isProcessingRef /\ calls = {c}

\* C28 witness: a call is cooling down while another job waits in the queue.
C28_Witness ==
  /\ Cooling # {}
  /\ processingQueueRef # <<>>
  /\ \E c \in Cooling : c.item.type = "polish" /\ Len(attempts[JobKey(c.item)]) > 0

\* new differs from old at most in the field of the job's type of the
\* segments whose id is the job's.
OnlyField(old, new, item) ==
  /\ Len(new) = Len(old)
  /\ \A i \in 1..Len(old) :
       IF old[i].id # item.id THEN new[i] = old[i]
       ELSE IF item.type = "polish"
            THEN [new[i] EXCEPT !.text = old[i].text] = old[i]
            ELSE [new[i] EXCEPT !.translatedText = old[i].translatedText] = old[i]

\* The same call for the other field of the same segment.
OtherJob(c) ==
  [c EXCEPT !.item.type = IF c.item.type = "polish" THEN "translate" ELSE "polish"]

\* Applying the result r of c and a result q of the other job of the same
\* segment gives the same list in either order.
EitherOrder(list, c, r, q) ==
  ApplyResult(ApplyResult(list, c, r), OtherJob(c), q)
    = ApplyResult(ApplyResult(list, OtherJob(c), q), c, r)

\* C29: a polish result changes only the text, a translate result only the
\* translatedText, of the segments with the job's id, in the live list and
\* in every session; everything else of every segment and session is
\* unchanged, and the results of the two jobs of a segment commute.
C29_DisjointFields ==
  [][ \A c \in calls : \A r \in lim.responses :
        CallSucceeds(c, r) =>
          /\ OnlyField(segments, segments', c.item)
          /\ Len(sessions') = Len(sessions)
          /\ \A k \in 1..Len(sessions) :
               /\ OnlyField(sessions[k].segments, sessions'[k].segments, c.item)
               /\ [sessions'[k] EXCEPT !.segments = sessions[k].segments] = sessions[k]
               /\ \A q \in lim.responses \cup {<<>>} :
                    EitherOrder(sessions[k].segments, c, r, q)
          /\ \A q \in lim.responses \cup {<<>>} : EitherOrder(segments, c, r, q) ]_vars

\* C29 witness: of two live segments one has received both its polish and
\* its translate result and the other neither.
C29_Witness ==
  /\ Len(segments) = 2
  /\ \E i, j \in 1..2 :
       /\ segments[i].translatedText # NoText
       /\ \E a \in DOMAIN attempts : a = <<segments[i].id, "polish">>
            /\ \E n \in 1..Len(attempts[a]) : attempts[a][n].ok
       /\ segments[j].translatedText = NoText
       /\ segments[j].id # segments[i].id

\* The calls that fail in the step: in flight before, gone after, with a
\* failure appended to the history of their job.
Failed ==
  { c \in calls :
      /\ c.phase = "call" /\ c \notin calls'
      /\ LET log == attempts'[JobKey(c.item)] IN
         /\ Len(log) = Len(attempts[JobKey(c.item)]) + 1
         /\ ~log[Len(log)].ok }

\* Everything a failure of c leaves alone or changes, the drain timers
\* apart: no list, status, view, queue, buffer, connection or audio state
\* changes, the call is gone, the busy flag is clear and the re-enqueue is
\* scheduled exactly when retryCount < 5.
Absorbed(c) ==
  /\ UNCHANGED <<reactVars, segVars, processingQueueRef, connVars, nextSessId, audioVars>>
  /\ calls' = calls \ {c}
  /\ isProcessingRef' = FALSE
  /\ retryTimers' =
       IF c.item.retryCount < 5
       THEN retryTimers (+) SetToBag({[item |-> c.item,
                                       delay |-> RetryDelay(c.item.retryCount)]})
       ELSE retryTimers

\* C30: a failed polish or translate call changes no segment, no status and
\* nothing else but this: the busy flag is cleared, the re-enqueue is
\* scheduled when retryCount < 5, and the finally block schedules the next
\* processQueue run of the closure that made the call.
C30_FailureAbsorbed ==
  [][ \A c \in Failed :
        /\ Absorbed(c)
        /\ drainTimers' = drainTimers (+)
             SetToBag({[env |-> c.env, delay |-> DrainDelayMs]}) ]_vars

\* C30 as stated: the cleared flag and the scheduled re-enqueue are the only
\* changes, so no other timer is scheduled.
C30_OnlyFlagAndRetry ==
  [][ \A c \in Failed : Absorbed(c) /\ drainTimers' = drainTimers ]_vars

\* C30 witness: while recording a job has failed for the sixth time, no
\* re-enqueue is pending, the flag is clear, a processQueue run is scheduled
\* and the segment has the text it was finalized with.
C30_Witness ==
  /\ status = RECORDING
  /\ ~isProcessingRef
  /\ retryTimers = EmptyBag
  /\ drainTimers # EmptyBag
  /\ \E k \in DOMAIN attempts :
       /\ Failures(attempts[k]) = 6
       /\ Copies(k[1]) # {}
       /\ \A seg \in Copies(k[1]) :
            seg.text = origText[k[1]] /\ seg.translatedText = NoText

\* The number of jobs with key k: queue entries, pending retry timers and
\* the call in flight, each counted with its multiplicity.
JobCount(k) ==
  Cardinality({ i \in 1..Len(processingQueueRef) : JobKey(processingQueueRef[i]) = k })
  + BagCardinality([t \in { u \in BagToSet(retryTimers) : JobKey(u.item) = k }
                      |-> CopiesIn(t, retryTimers)])
  + Cardinality({ c \in Outstanding : JobKey(c.item) = k })

\* C31: job uniqueness -- for each segment id and kind at most one job
\* exists, counting together the queue entries, the pending retry timers and
\* the call in flight.
C31_JobUnique ==
  \A k \in DOMAIN attempts : JobCount(k) <= 1

\* C31 witness: a polish job that failed before waits in the queue with its
\* raised retryCount while the translate job of the same segment is in
\* flight.
C31_Witness ==
  \E j \in QueuedJobs : \E a \in ActiveJobs :
    /\ j.type = "polish" /\ j.retryCount >= 1
    /\ a.id = j.id /\ a.type = "translate"
    /\ JobCount(JobKey(j)) = 1

\* C32: once the status is ERROR it stays ERROR until startRecording has
\* obtained the microphone; no timer, transport event, queue activity,
\* session selection or stop changes it, and no session is opened meanwhile.
C32_ErrorTerminal ==
  [][ status = ERROR =>
        /\ status' = ERROR \/ \E cap \in micPending : MicGranted(cap)
        /\ status' = ERROR => nextConnId' = nextConnId ]_vars

\* The jobs a retry timer can push: retryCount 1 to 5.
RetryJobs ==
  { Job(id, type, rc) : id \in 1..MaxSegs, type \in {"polish", "translate"},
                        rc \in 1..MaxJobRetries }

\* C33: retry liveness -- a job that a retry timer has pushed onto the queue
\* is eventually taken out of it again, if timers fire and calls resolve.
C33_RetryLiveness ==
  \A j \in RetryJobs : (j \in QueuedJobs) ~> (j \notin QueuedJobs)

\* C34: forwarding starts on open -- while the status is RECORDING and the
\* microphone stream is held, every open session has the audio processor
\* wired to it, so the frames captured are sent to it.
C34_ForwardingOnOpen ==
  \A c \in conns :
    (c.open /\ status = RECORDING /\ audioStream # Null) => c.audio

\* context.map(s => s.text): what the prompt takes from the context, with
\* the ids for reference.
Texts(list) == [i \in 1..Len(list) |-> <<list[i].id, list[i].text>>]

\* The polish calls a step dispatches.
Dispatched ==
  { c \in calls' : c.item.type = "polish" /\ c.item \notin { e.item : e \in calls } }

\* C35: the context handed to a polish call for the segment at index i of
\* the authoritative list is the segments at indices max(0, i-3) .. i-1 of
\* that list, in order, with the text they have there.
C35_PolishContext ==
  [][ \A c \in Dispatched :
        c.item.id \in Ids(ViewedAfter) =>
          Texts(ContextOf(c)) = Texts(contextSegments(ViewedAfter, c.item.id)) ]_vars

\* C36: enrichment survives archiving -- every segment of the live list has,
\* in the session that stopRecording archives, the text and translatedText
\* it has in the live list at the moment of the stop.
C36_EnrichmentArchived ==
  [][ (status # IDLE /\ status' = IDLE) =>
        LET archived == sessions'[1].segments IN
        \A i \in 1..Len(segments) :
          /\ i <= Len(archived)
          /\ archived[i].id = segments[i].id
          /\ archived[i].text = segments[i].text
          /\ archived[i].translatedText = segments[i].translatedText ]_vars

OpenSessions == { c \in conns : c.open }

\* C37: single session -- at any time at most one streaming session opened
\* by connectToLive is open.
C37_SingleSession == Cardinality(OpenSessions) <= 1

\* C38: no reaction after stop -- a transport error delivered while the
\* status is IDLE schedules no reconnect and leaves the status IDLE, whatever
\* the retry counter is, and a reconnect timer that fires while the status
\* is IDLE opens no session.
C38_NoReactionAfterStop ==
  [][ status = IDLE =>
        /\ \A c \in conns :
             OnError(c) => status' = IDLE /\ connectTimers' = connectTimers
        /\ \A t \in BagToSet(connectTimers) :
             ConnectFires(t) => conns' = conns /\ nextConnId' = nextConnId ]_vars

\* new is old with one segment appended at the end.
Appended(old, new) ==
  Len(new) = Len(old) + 1 /\ SubSeq(new, 1, Len(old)) = old

\* new is old with text or translatedText of some segments replaced.
FieldsReplaced(old, new) ==
  /\ Len(new) = Len(old)
  /\ \A i \in 1..Len(old) :
       [new[i] EXCEPT !.text = old[i].text,
                      !.translatedText = old[i].translatedText] = old[i]

Active == {RECORDING, PAUSED}

\* C39: append-only live list -- while the status is RECORDING or PAUSED
\* every change of the live list appends one segment at the end or replaces
\* text / translatedText of existing segments; nothing is removed or
\* reordered.
C39_AppendOnly ==
  [][ (status \in Active /\ status' \in Active /\ segments' # segments) =>
        Appended(segments, segments') \/ FieldsReplaced(segments, segments') ]_vars
====
